---- MODULE Spec2Model ----
(***************************************************************************)
(* Decision-tree induction of src/tree.cc (namespace fdt, class Node and   *)
(* main).  A tree is a function from positions (the strings position_) to  *)
(* node records; the recursion of Node::build_tree is a stack of positions *)
(* whose build_tree call is pending, left before right.                    *)
(*                                                                         *)
(* Numbers.  Feature values are small integers.  threshold_ is kept        *)
(* doubled (the sum of the two adjacent values instead of their mean), so  *)
(* that "feature < threshold_" is "2 * feature < threshold_" on integers.  *)
(* An information gain is kept as  total * Scale * gain  on integers,      *)
(* with log2 taken from a table that is exactly additive over products;    *)
(* all gains the program compares with each other belong to one node and   *)
(* so share the factor total * Scale.  This is the gain formula in exact   *)
(* arithmetic.  The IEEE doubles of the program order the gains and test   *)
(* them against 0 in the same way for every partition of up to 4 samples;  *)
(* from 5 samples on rounding may order two gains that are equal in exact  *)
(* arithmetic.                                                             *)
(***************************************************************************)
EXTENDS Integers, Sequences, FiniteSets, TLC

\* ---- bounds --------------------------------------------------------------
MaxN     == 3   \* samples in a training partition
MaxVal   == 3   \* values of SL are 1 .. MaxVal
MaxDepth == 1   \* greatest depth argument tried
MaxLabel == 1   \* greatest length of the root position label
MaxCount == 4   \* class counts tried on find_best alone
E2EVals  == 2   \* values of the separating features in the 9-sample scenario
E2EDepth == 2   \* the depth argument of the 9-sample scenario

\* ---- enums (tree.cc:15-16) -------------------------------------------------
Class   == 0 .. 2
Feature == <<"SL", "SW", "PL", "PW">>
Features == {Feature[i] : i \in 1 .. 4}

\* Flower::feature (tree.cc:58-65)
feature(fl, f) ==
  CASE f = "SL" -> fl.sl
    [] f = "SW" -> fl.sw
    [] f = "PL" -> fl.pl
    [] f = "PW" -> fl.pw

\* Flower::get_class (tree.cc:30)
get_class(fl) == fl.class

\* flowers_[k] with the 0-based index k of the code.  An index outside the
\* vector is undefined behaviour; the read then yields an arbitrary flower.
Garbage == [sl |-> 0, sw |-> 0, pl |-> 0, pw |-> 0, class |-> 0]
At(fl, k) == IF k + 1 \in DOMAIN fl THEN fl[k + 1] ELSE Garbage

\* ---- log2, linlog, I (tree.cc:17-18) ---------------------------------------
Scale == 1000000
Log3  == 1584963   \* Scale * log2(3)
Log5  == 2321928   \* Scale * log2(5)
Log7  == 2807355   \* Scale * log2(7)

\* Scale * std::log2(k) for the integers that occur as class counts
Log2S(k) ==
  CASE k = 1  -> 0
    [] k = 2  -> Scale
    [] k = 3  -> Log3
    [] k = 4  -> 2 * Scale
    [] k = 5  -> Log5
    [] k = 6  -> Scale + Log3
    [] k = 7  -> Log7
    [] k = 8  -> 3 * Scale
    [] k = 9  -> 2 * Log3
    [] k = 10 -> Scale + Log5

\* linlog(p/q) = (p/q) * log2(p/q), returned as q * Scale * linlog(p/q)
linlog(p, q) == IF p = 0 THEN 0 ELSE p * (Log2S(p) - Log2S(q))

\* I(a/t, b/t, c/t), returned as t * Scale * I
I(a, b, c, t) == 0 - linlog(a, t) - linlog(b, t) - linlog(c, t)

\* ---- Node helpers ------------------------------------------------------------
\* Node::count_class (tree.cc:83-95)
count_class(fl) ==
  [k \in Class |-> Cardinality({i \in DOMAIN fl : get_class(fl[i]) = k})]

\* split_node with rflowers starting one flower late
split_node_late(fl, index) ==
  [left  |-> SubSeq(fl, 1, index),
   right |-> SubSeq(fl, index + 2, Len(fl))]

\* Node::split_node (tree.cc:111-116): the flowers of left_ and right_
split_node(fl, index) ==
  [left  |-> SubSeq(fl, 1, index),
   right |-> SubSeq(fl, index + 1, Len(fl))]

\* the totals and the return statement of Node::gain (tree.cc:102-108) on the
\* class counts of the node (n), of left_ (n1) and of right_ (n2), as
\* total * Scale * gain
Total(n) == n[0] + n[1] + n[2]
gain_counts(n, n1, n2) ==
  IF Total(n1) = 0 \/ Total(n2) = 0 THEN 0
  ELSE I(n[0], n[1], n[2], Total(n))
         - I(n1[0], n1[1], n1[2], Total(n1))
         - I(n2[0], n2[1], n2[2], Total(n2))

\* Node::gain (tree.cc:97-109) after split_node(index)
gain(fl, index) ==
  gain_counts(count_class(fl),
              count_class(split_node(fl, index).left),
              count_class(split_node(fl, index).right))

\* Node::sort_flowers_by (tree.cc:75-81).  std::sort on at most 16 elements is
\* an insertion sort: an element is placed after the elements that are not
\* greater.  Nothing the program reads afterwards depends on the order of
\* flowers with equal values.
RECURSIVE Insert(_, _, _)
Insert(s, x, f) ==
  IF s = <<>> THEN <<x>>
  ELSE IF feature(x, f) < feature(Head(s), f) THEN <<x>> \o s
  ELSE <<Head(s)>> \o Insert(Tail(s), x, f)

RECURSIVE sort_flowers_by(_, _)
sort_flowers_by(fl, f) ==
  IF fl = <<>> THEN <<>>
  ELSE Insert(sort_flowers_by(SubSeq(fl, 1, Len(fl) - 1), f), fl[Len(fl)], f)

\* the inner for with the comparison inverted: it stops where the value stays
RECURSIVE NextChangeInverted(_, _, _)
NextChangeInverted(fl, f, split_point) ==
  IF split_point < Len(fl)
     /\ feature(At(fl, split_point - 1), f) # feature(At(fl, split_point), f)
  THEN NextChangeInverted(fl, f, split_point + 1)
  ELSE split_point

\* inner for of max_gain (tree.cc:123-127): advance split_point to the next
\* index at which the value changes, or to size
RECURSIVE NextChange(_, _, _)
NextChange(fl, f, split_point) ==
  IF split_point < Len(fl)
     /\ feature(At(fl, split_point - 1), f) = feature(At(fl, split_point), f)
  THEN NextChange(fl, f, split_point + 1)
  ELSE split_point

\* index starting one lower
InitIndexLow == 1 - 1

\* index and cur_max at the start of max_gain (tree.cc:120-121)
InitIndex == 1
InitMax   == 0

\* the indices of flowers_ the inner for reads when it starts at from and
\* ends at sp
Looked(fl, from, sp) ==
  UNION {{k - 1, k} : k \in from .. (IF sp < Len(fl) THEN sp ELSE sp - 1)}

\* tree.cc:128-133: split_node(sp), candidate = gain() and the update of
\* cur_max and index.  st holds the locals cur_max and index, the arguments
\* of the split_node calls made so far (splits) and the indices of flowers_
\* read so far (reads).
Candidate(st, sp, candidate, looked) ==
  IF candidate > st.cur_max
  THEN [cur_max |-> candidate, index |-> sp,
        splits |-> st.splits \cup {sp}, reads |-> st.reads \cup looked]
  ELSE [cur_max |-> st.cur_max, index |-> st.index,
        splits |-> st.splits \cup {sp}, reads |-> st.reads \cup looked]

\* outer for of max_gain (tree.cc:122-135).  After a candidate at sp the loop
\* goes on at sp + 2: the split_point++ of line 134 and the one of the for
\* statement.
RECURSIVE max_gain_loop(_, _, _, _)
RECURSIVE max_gain_body(_, _, _, _, _)
max_gain_loop(fl, f, split_point, st) ==
  IF split_point < Len(fl)
  THEN max_gain_body(fl, f, split_point, NextChange(fl, f, split_point), st)
  ELSE st

max_gain_body(fl, f, from, sp, st) ==
  max_gain_loop(fl, f, sp + 2, Candidate(st, sp, gain(fl, sp), Looked(fl, from, sp)))

\* the end of max_gain (tree.cc:137-149) on the sorted flowers and the locals
\* st the loop leaves: the value returned (gain), the attributes of the node
\* afterwards (flowers_, threshold_, feature_ and the flowers of left_ and
\* right_), the local index, the split_node arguments and the indices of
\* flowers_ read
max_gain_end(fl, f, st) ==
  [gain       |-> st.cur_max,
   index      |-> st.index,
   flowers_   |-> fl,
   left       |-> split_node(fl, st.index).left,
   right      |-> split_node(fl, st.index).right,
   threshold_ |-> feature(At(fl, st.index - 1), f) + feature(At(fl, st.index), f),
   feature_   |-> f,
   splits     |-> st.splits \cup {st.index},
   reads      |-> st.reads \cup {st.index - 1, st.index}]

\* max_gain after sort_flowers_by (tree.cc:120-149)
max_gain_sorted(fl, f) ==
  max_gain_end(fl, f, max_gain_loop(fl, f, 1,
    [cur_max |-> InitMax, index |-> InitIndex, splits |-> {}, reads |-> {}]))

\* Node::max_gain (tree.cc:118-150)
max_gain(fl0, f) == max_gain_sorted(sort_flowers_by(fl0, f), f)

\* what the history fields keep of a max_gain call
Kept(m) ==
  [gain |-> m.gain, index |-> m.index, threshold_ |-> m.threshold_,
   feature_ |-> m.feature_, splits |-> m.splits, reads |-> m.reads]

\* find_best with the tie of the first and the third class broken among the
\* second and the third
find_best_swapped(a, b, c) ==
  IF a = b /\ b = c THEN {0, 1, 2}
  ELSE IF a = b /\ b > c THEN {0, 1}
  ELSE IF b = c /\ c > a THEN {1 + d : d \in {0, 1}}
  ELSE IF c = a /\ a > b THEN {1 + d : d \in {0, 1}}
  ELSE IF a = b THEN {2}
  ELSE IF b = c THEN {0}
  ELSE IF c = a THEN {1}
  ELSE {(IF b > a /\ b > c THEN 1 ELSE 0) + 2 * (IF c > a /\ c > b THEN 1 ELSE 0)}

\* Node::find_best (tree.cc:152-165): the set of values it can return; d2(g)
\* is any of 0, 1, 2 and d1(g) any of 0, 1
find_best(a, b, c) ==
  IF a = b /\ b = c THEN {0, 1, 2}
  ELSE IF a = b /\ b > c THEN {0, 1}
  ELSE IF b = c /\ c > a THEN {1 + d : d \in {0, 1}}
  ELSE IF c = a /\ a > b THEN {2 * d : d \in {0, 1}}
  ELSE IF a = b THEN {2}
  ELSE IF b = c THEN {0}
  ELSE IF c = a THEN {1}
  ELSE {(IF b > a /\ b > c THEN 1 ELSE 0) + 2 * (IF c > a /\ c > b THEN 1 ELSE 0)}

\* std::to_string of a class code (tree.cc:172, 233)
to_string(k) == CASE k = 0 -> "0" [] k = 1 -> "1" [] k = 2 -> "2"

\* ---- state -------------------------------------------------------------------
VARIABLES
  tflowers,   \* main: the training flowers (tree.cc:240-250)
  name,       \* main: the root position label, argv[4] or "" (tree.cc:252)
  argDepth,   \* main: atoi(argv[3]) once passed to set_max_depth (tree.cc:253)
  max_depth,  \* fdt::max_depth (tree.cc:14)
  nodes,      \* the Node objects alive, by position_
  stack,      \* positions whose build_tree call is pending, innermost first
  pc,         \* where main is
  vi,         \* main: flowers of the training loop already validated
  correctt,   \* main: correctt (tree.cc:256)
  derefNull,  \* a validate_flower call went through a null child
  fb          \* find_best taken alone: its arguments and the value returned

vars == <<tflowers, name, argDepth, max_depth, nodes, stack, pc, vi, correctt, derefNull, fb>>

\* Node::Node (tree.cc:51).  feature_ is the empty string, left_ and right_ are
\* null; threshold_ is not initialised and is not read before build_tree
\* assigns it.  built, searched, scan, mg, sel are history fields: whether
\* build_tree has returned to its own recursive calls, whether it ran the
\* split search, the indices the purity scan read, the records of the calls
\* max_gain(SL .. PW) of lines 197-200 and that of the call of lines 206-212.
Node(new_flowers, position) ==
  [feature_ |-> "", threshold_ |-> 0, position_ |-> position,
   flowers_ |-> new_flowers, left_ |-> FALSE, right_ |-> FALSE,
   built |-> FALSE, searched |-> FALSE, scan |-> {}, mg |-> <<>>, sel |-> <<>>]

\* the depth test one level late
DepthReachedLate(position) == max_depth >= 0 /\ max_depth + 1 = Len(position)

\* max_depth == position_.size() (tree.cc:190).  The int is converted to
\* size_t for the comparison: a negative max_depth becomes a value near 2^64
\* and equals no size.
DepthReached(position) == max_depth >= 0 /\ max_depth = Len(position)

\* the for loop of build_tree (tree.cc:189-195): TRUE in leaf when it ends in
\* make_leaf, FALSE when it ends in break; reads are the indices read
RECURSIVE PurityScan(_, _, _, _)
PurityScan(fl, position, i, reads) ==
  IF i = Len(fl) - 1 \/ DepthReached(position)
  THEN [leaf |-> TRUE, reads |-> reads]
  ELSE IF get_class(At(fl, i)) # get_class(At(fl, i + 1))
  THEN [leaf |-> FALSE, reads |-> reads \cup {i, i + 1}]
  ELSE PurityScan(fl, position, i + 1, reads \cup {i, i + 1})

\* make_leaf without the two reset calls
make_leaf_keeping(nd, label) ==
  [nd EXCEPT !.feature_ = to_string(label), !.threshold_ = 0]

\* Node::make_leaf (tree.cc:167-174), label being the value of find_best
make_leaf(nd, label) ==
  [nd EXCEPT !.left_ = FALSE, !.right_ = FALSE,
             !.feature_ = to_string(label), !.threshold_ = 0]

\* the if chain without its first test
SelectFeatureAlways(gainSL, gainSW, gainPL, gainPW) ==
  IF gainSL >= gainSW /\ gainSL >= gainPL /\ gainSL >= gainPW THEN "SL"
  ELSE IF gainSW >= gainSL /\ gainSW >= gainPL /\ gainSW >= gainPW THEN "SW"
  ELSE IF gainPL >= gainSL /\ gainPL >= gainSW /\ gainPL >= gainPW THEN "PL"
  ELSE "PW"

\* the if chain of build_tree (tree.cc:202-213) on the four gains: "" when no
\* feature is left, else the feature max_gain is called on again
SelectFeature(gainSL, gainSW, gainPL, gainPW) ==
  IF gainSL = 0 /\ gainSW = 0 /\ gainPL = 0 /\ gainPW = 0 THEN ""
  ELSE IF gainSL >= gainSW /\ gainSL >= gainPL /\ gainSL >= gainPW THEN "SL"
  ELSE IF gainSW >= gainSL /\ gainSW >= gainPL /\ gainSW >= gainPW THEN "SW"
  ELSE IF gainPL >= gainSL /\ gainPL >= gainSW /\ gainPL >= gainPW THEN "PL"
  ELSE "PW"

\* the four calls max_gain(SL), max_gain(SW), max_gain(PL), max_gain(PW) of
\* tree.cc:197-200, each on the flowers_ the previous one left sorted; the
\* result is the sequence of the four calls, in the order of Feature
RECURSIVE GainsFrom(_, _, _)
RECURSIVE GainsNext(_, _, _)
GainsFrom(fl, i, acc) ==
  IF i > 4 THEN acc ELSE GainsNext(max_gain(fl, Feature[i]), i, acc)
GainsNext(m, i, acc) == GainsFrom(m.flowers_, i + 1, Append(acc, m))

FourGains(fl) == GainsFrom(fl, 1, <<>>)

\* the history field mg: what is kept of the four calls, by feature
FeatureIndex(f) == CHOOSE i \in 1 .. 4 : Feature[i] = f
ByFeature(mg) == [f \in Features |-> Kept(mg[FeatureIndex(f)])]

\* build_tree keeping the split of the fourth call under the chosen name
CommitStale(mg, f) == [mg[4] EXCEPT !.feature_ = f]

\* the last call of max_gain in build_tree (tree.cc:205-213), on the chosen
\* feature f, after the four calls mg
Commit(mg, f) == max_gain(mg[4].flowers_, f)

\* the state a build_tree call leaves behind when it makes a leaf
LeafStep(p, nd) ==
  /\ \E label \in find_best(count_class(nd.flowers_)[0],
                            count_class(nd.flowers_)[1],
                            count_class(nd.flowers_)[2]) :
        nodes' = [nodes EXCEPT ![p] = [make_leaf(nd, label) EXCEPT !.built = TRUE]]
  /\ stack' = Tail(stack)
  /\ pc' = IF Tail(stack) = <<>> THEN "validate" ELSE "build_tree"

\* the state a build_tree call has made when it calls left_->build_tree()
SplitStep(p, nd, m) ==
  LET l == p \o <<"L">>
      r == p \o <<"R">>
      me == [nd EXCEPT !.feature_ = m.feature_, !.threshold_ = m.threshold_,
                       !.flowers_ = m.flowers_, !.left_ = TRUE, !.right_ = TRUE,
                       !.built = TRUE, !.sel = Kept(m)]
  IN  /\ nodes' = [q \in DOMAIN nodes \cup {l, r} |->
                     IF q = p THEN me
                     ELSE IF q = l THEN Node(m.left, l)
                     ELSE IF q = r THEN Node(m.right, r)
                     ELSE nodes[q]]
      /\ stack' = <<l, r>> \o Tail(stack)
      /\ pc' = "build_tree"

\* ---- actions -----------------------------------------------------------------
\* main, tree.cc:253-254: set_max_depth (tree.cc:52) and the call of
\* build_tree on the root.  depth + position_.size() is computed in size_t
\* and converted back to int, which is the integer sum for small values.
SetMaxDepth(depth) ==
  /\ pc = "set_max_depth"
  /\ argDepth' = depth
  /\ max_depth' = depth + Len(name)
  /\ stack' = <<name>>
  /\ pc' = "build_tree"
  /\ UNCHANGED <<tflowers, name, nodes, vi, correctt, derefNull, fb>>

\* build_tree from line 202 on: f is what the if chain selects
DecideStep(p, nd, mg, f) ==
  IF f = "" THEN LeafStep(p, nd) ELSE SplitStep(p, nd, Commit(mg, f))

\* the node after the four calls mg (tree.cc:197-200): the attributes are
\* those max_gain(PW) leaves
Searched(nd, mg) ==
  [nd EXCEPT !.searched = TRUE, !.mg = ByFeature(mg),
             !.flowers_ = mg[4].flowers_, !.feature_ = mg[4].feature_,
             !.threshold_ = mg[4].threshold_, !.left_ = TRUE, !.right_ = TRUE]

\* build_tree from line 197 on
SearchStep(p, nd, mg) ==
  DecideStep(p, Searched(nd, mg), mg,
             SelectFeature(mg[1].gain, mg[2].gain, mg[3].gain, mg[4].gain))

\* build_tree after its for loop, sc being how the loop ended
ScanStep(p, nd, sc) ==
  IF sc.leaf
  THEN LeafStep(p, [nd EXCEPT !.scan = sc.reads])
  ELSE SearchStep(p, [nd EXCEPT !.scan = sc.reads], FourGains(nd.flowers_))

\* Node::build_tree (tree.cc:188-217) on the node on top of the stack, up to
\* its recursive calls, which are the next steps
BuildTree ==
  /\ pc = "build_tree"
  /\ stack # <<>>
  /\ ScanStep(Head(stack), nodes[Head(stack)],
              PurityScan(nodes[Head(stack)].flowers_, Head(stack), 0, {}))
  /\ UNCHANGED <<tflowers, name, argDepth, max_depth, vi, correctt, derefNull, fb>>

\* Node::validate_flower (tree.cc:219-235) from the node at position p of the
\* tree t; ok is FALSE when it would go through a null child, leaf is the
\* position it ends at
RECURSIVE validate_flower(_, _, _)
validate_flower(t, p, fl) ==
  LET nd == t[p]
  IN  IF nd.feature_ \in Features
      THEN IF 2 * feature(fl, nd.feature_) < nd.threshold_
           THEN IF nd.left_ THEN validate_flower(t, p \o <<"L">>, fl)
                ELSE [ok |-> FALSE, result |-> FALSE, leaf |-> p]
           ELSE IF nd.right_ THEN validate_flower(t, p \o <<"R">>, fl)
                ELSE [ok |-> FALSE, result |-> FALSE, leaf |-> p]
      ELSE [ok |-> TRUE, result |-> (to_string(get_class(fl)) = nd.feature_), leaf |-> p]

\* main, tree.cc:256-261: one iteration of the loop over tflowers
ValidateFlower ==
  /\ pc = "validate"
  /\ vi < Len(tflowers)
  /\ LET r == validate_flower(nodes, name, tflowers[vi + 1])
     IN  /\ correctt' = IF r.result THEN correctt + 1 ELSE correctt
         /\ derefNull' = (derefNull \/ ~r.ok)
  /\ vi' = vi + 1
  /\ pc' = IF vi + 1 = Len(tflowers) THEN "done" ELSE "validate"
  /\ UNCHANGED <<tflowers, name, argDepth, max_depth, nodes, stack, fb>>

\* a call of find_best on its own
FindBestCall ==
  /\ pc = "find_best"
  /\ \E r \in find_best(fb.a, fb.b, fb.c) : fb' = [fb EXCEPT !.r = r, !.called = TRUE]
  /\ pc' = "done"
  /\ UNCHANGED <<tflowers, name, argDepth, max_depth, nodes, stack, vi, correctt, derefNull>>

\* ---- inputs ------------------------------------------------------------------
\* the flowers tried: at most one feature differs from the value 1, SL by
\* any value up to MaxVal, SW, PL and PW by the value 2
Flowers ==
  {fl \in [sl : 1 .. MaxVal, sw : 1 .. 2, pl : 1 .. 2, pw : 1 .. 2, class : Class] :
     Cardinality({f \in Features : feature(fl, f) # 1}) <= 1}

\* those that differ on SL only
FlowersSL == {fl \in Flowers : fl.sw = 1 /\ fl.pl = 1 /\ fl.pw = 1}

\* a total order on flowers
Base == MaxVal + 1
Key(fl) == ((((fl.sl * Base + fl.sw) * Base + fl.pl) * Base) + fl.pw) * 3 + fl.class

\* the sequences of n flowers of the set pool, one order for each multiset
RECURSIVE SortedSeqs(_, _)
SortedSeqs(pool, n) ==
  IF n = 0 THEN {<<>>}
  ELSE {t \in {Append(s, x) : s \in SortedSeqs(pool, n - 1), x \in pool} :
          n = 1 \/ Key(t[n - 1]) <= Key(t[n])}

\* training sets of 1 .. MaxN flowers
TrainingSets == UNION {SortedSeqs(Flowers, n) : n \in 1 .. MaxN}
TrainingSetsSL == UNION {SortedSeqs(FlowersSL, n) : n \in 1 .. MaxN}

\* root position labels: argv[4], of which only the length matters
Labels == {[i \in 1 .. n |-> "R"] : n \in 0 .. MaxLabel}

\* depth arguments: atoi(argv[3])
Depths == -1 .. MaxDepth

NoFb == [a |-> 0, b |-> 0, c |-> 0, r |-> 0, called |-> FALSE]

\* main up to the construction of ttree (tree.cc:240-252), the validation
\* range being empty
InitWith(trainings, labels) ==
  /\ tflowers \in trainings
  /\ name \in labels
  /\ argDepth = 0
  /\ max_depth = 0
  /\ nodes = [q \in {name} |-> Node(tflowers, name)]
  /\ stack = <<>>
  /\ pc = "set_max_depth"
  /\ vi = 0
  /\ correctt = 0
  /\ derefNull = FALSE
  /\ fb = NoFb

\* every training set, built without a root label, once with the depth
\* argument MaxDepth and once with MaxN, a depth no tree of MaxN flowers has
Init == InitWith(TrainingSets, {<<>>})

Next ==
  \/ \E depth \in {MaxDepth, MaxN} : SetMaxDepth(depth)
  \/ BuildTree
  \/ ValidateFlower

Spec == Init /\ [][Next]_vars

\* the training sets that differ on SL only, built with every root label and
\* every depth argument
InitDepth == InitWith(TrainingSetsSL, Labels)

NextDepth ==
  \/ \E depth \in Depths : SetMaxDepth(depth)
  \/ BuildTree
  \/ ValidateFlower

SpecDepth == InitDepth /\ [][NextDepth]_vars

\* the 9-sample scenario: 3 flowers per class, SL below E2EVals + 1 exactly on
\* class 0, PL below E2EVals + 1 on class 1 and not on class 2
E2ESets ==
  {[i \in 1 .. 9 |->
      IF i <= 3 THEN [sl |-> a[i], sw |-> 1, pl |-> 1, pw |-> 1, class |-> 0]
      ELSE IF i <= 6 THEN [sl |-> E2EVals + 1, sw |-> 1, pl |-> b[i - 3], pw |-> 1, class |-> 1]
      ELSE [sl |-> E2EVals + 1, sw |-> 1, pl |-> E2EVals + 1, pw |-> 1, class |-> 2]] :
     a \in [1 .. 3 -> 1 .. E2EVals], b \in [1 .. 3 -> 1 .. E2EVals]}

InitE2E == InitWith(E2ESets, {<<>>})

NextE2E ==
  \/ SetMaxDepth(E2EDepth)
  \/ BuildTree
  \/ ValidateFlower

SpecE2E == InitE2E /\ [][NextE2E]_vars

\* find_best on every triple of counts up to MaxCount
InitFB ==
  /\ tflowers = <<>>
  /\ name = <<>>
  /\ argDepth = 0
  /\ max_depth = 0
  /\ nodes = <<>>
  /\ stack = <<>>
  /\ pc = "find_best"
  /\ vi = 0
  /\ correctt = 0
  /\ derefNull = FALSE
  /\ fb \in [a : 0 .. MaxCount, b : 0 .. MaxCount, c : 0 .. MaxCount, r : {0}, called : {FALSE}]

NextFB == FindBestCall

SpecFB == InitFB /\ [][NextFB]_vars

\* ---- properties --------------------------------------------------------------
Max(S) == CHOOSE x \in S : \A y \in S : y <= x
Min(S) == CHOOSE x \in S : \A y \in S : x <= y

Positions == DOMAIN nodes
Depth(p) == Len(p) - Len(name)
Finished == pc \in {"validate", "done"}
Labelled(nd) == nd.feature_ \in {to_string(k) : k \in Class}
IsLeaf(nd) == ~nd.left_ /\ ~nd.right_ /\ Labelled(nd)
IsInternal(nd) == nd.left_ /\ nd.right_ /\ nd.feature_ \in Features
Left(p) == p \o <<"L">>
Right(p) == p \o <<"R">>
Times(fl, x) == Cardinality({i \in DOMAIN fl : fl[i] = x})
Classes(fl) == {get_class(fl[i]) : i \in DOMAIN fl}

\* the split points of a sorted partition: 1 <= i < n with different values
\* at the indices i-1 and i
ChangePoints(fl, f) ==
  {i \in 1 .. Len(fl) - 1 : feature(At(fl, i - 1), f) # feature(At(fl, i), f)}
BestGain(fl, f) == Max({gain(fl, i) : i \in ChangePoints(fl, f)} \cup {0})
FirstBest(fl, f) == Min({i \in ChangePoints(fl, f) : gain(fl, i) = BestGain(fl, f)})

\* C1: every max_gain(f) of a split search returns the greatest gain over all
\* the points where the value of f changes (0 when there is none, or none
\* with a positive gain), and keeps the first point that has this gain.
C1_BestOverAllChangePoints ==
  \A p \in Positions :
    nodes[p].searched =>
      \A f \in Features :
        LET fl == sort_flowers_by(nodes[p].flowers_, f)
        IN  /\ nodes[p].mg[f].gain = BestGain(fl, f)
            /\ BestGain(fl, f) > 0 => nodes[p].mg[f].index = FirstBest(fl, f)

\* C2: at every internal node the flowers of the left child are below the
\* threshold on the chosen feature, those of the right child are not, and
\* the two children hold the flowers of the node, each as many times.
C2_ExactPartition ==
  \A p \in Positions :
    (nodes[p].built /\ IsInternal(nodes[p])) =>
      LET nd == nodes[p]
          lf == nodes[Left(p)].flowers_
          rf == nodes[Right(p)].flowers_
      IN  /\ \A i \in DOMAIN lf : 2 * feature(lf[i], nd.feature_) < nd.threshold_
          /\ \A i \in DOMAIN rf : 2 * feature(rf[i], nd.feature_) >= nd.threshold_
          /\ Len(lf) + Len(rf) = Len(nd.flowers_)
          /\ \A i \in DOMAIN nd.flowers_ :
               Times(lf, nd.flowers_[i]) + Times(rf, nd.flowers_[i])
                 = Times(nd.flowers_, nd.flowers_[i])

C2_Witness ==
  /\ Finished
  /\ \E p \in Positions :
       /\ IsInternal(nodes[p])
       /\ IsInternal(nodes[Left(p)])
       /\ Len(nodes[p].flowers_) = 3
       /\ nodes[p].feature_ # nodes[Left(p)].feature_

\* C3 as stated: for every depth argument, once the tree is built no node is
\* deeper than the argument and a node at that depth is a leaf.
C3_DepthBoundAnyArgument ==
  Finished =>
    \A p \in Positions :
      /\ Depth(p) <= argDepth
      /\ Depth(p) = argDepth => IsLeaf(nodes[p])

\* C3 amended: the same for every depth argument that is not negative.
C3_DepthBound ==
  (Finished /\ argDepth >= 0) =>
    \A p \in Positions :
      /\ Depth(p) <= argDepth
      /\ Depth(p) = argDepth => IsLeaf(nodes[p])

C3_Witness ==
  /\ Finished
  /\ argDepth = 1
  /\ Len(name) = 1
  /\ \E p \in Positions :
       /\ Depth(p) = 1
       /\ IsLeaf(nodes[p])
       /\ Cardinality(Classes(nodes[p].flowers_)) = 2

\* C4: every split build_tree recurses on has a positive gain and two
\* non-empty children, each smaller than the node; a node of one flower or of
\* one class is a leaf; and build_tree comes to an end: while it runs a call is pending
\* and every call decreases the number of flowers still to be decided.
SplitsShrink ==
  \A p \in Positions :
    nodes[p].built =>
      /\ IsInternal(nodes[p]) =>
           /\ nodes[p].sel.gain > 0
           /\ Len(nodes[Left(p)].flowers_) >= 1
           /\ Len(nodes[Right(p)].flowers_) >= 1
           /\ Len(nodes[Left(p)].flowers_) < Len(nodes[p].flowers_)
           /\ Len(nodes[Right(p)].flowers_) < Len(nodes[p].flowers_)
           /\ Len(Left(p)) > Len(p)
      /\ Cardinality(Classes(nodes[p].flowers_)) = 1 => IsLeaf(nodes[p])

\* flowers still to be decided: 2n - 1 for every node of n flowers whose
\* build_tree has not run, the greatest number of nodes it can turn into
RECURSIVE Pending(_)
Pending(S) ==
  IF S = {} THEN 0
  ELSE LET p == CHOOSE q \in S : TRUE
       IN  (IF nodes[p].built THEN 0 ELSE 2 * Len(nodes[p].flowers_) - 1) + Pending(S \ {p})

RECURSIVE PendingNext(_)
PendingNext(S) ==
  IF S = {} THEN 0
  ELSE LET p == CHOOSE q \in S : TRUE
       IN  (IF nodes'[p].built THEN 0 ELSE 2 * Len(nodes'[p].flowers_) - 1) + PendingNext(S \ {p})

\* while build_tree runs a call is pending, on a node that is not built
CanStep ==
  pc = "build_tree" =>
    /\ stack # <<>>
    /\ Head(stack) \in Positions
    /\ ~nodes[Head(stack)].built
    /\ Pending(Positions) > 0

C4_Terminates ==
  /\ [](SplitsShrink /\ CanStep)
  /\ [][pc = "build_tree" => PendingNext(DOMAIN nodes') < Pending(Positions)]_vars

C4_Witness ==
  /\ Finished
  /\ \E p \in Positions :
       /\ IsInternal(nodes[p])
       /\ IsInternal(nodes[Left(p)])
       /\ Len(nodes[Right(p)].flowers_) = 1

\* the leaf label policy on the counts n of the three classes: the classes
\* find_best may return
Policy(n) ==
  LET top == Max({n[k] : k \in Class})
      low == Min({n[k] : k \in Class})
      distinct == Cardinality({n[k] : k \in Class})
  IN  IF distinct = 1 THEN Class
      ELSE IF distinct = 2 /\ Cardinality({k \in Class : n[k] = top}) = 2
           THEN {k \in Class : n[k] = top}
      ELSE IF distinct = 2
           THEN {k \in Class : n[k] # low}
      ELSE {k \in Class : n[k] = top}

Counts(a, b, c) == [k \in Class |-> CASE k = 0 -> a [] k = 1 -> b [] k = 2 -> c]

\* C5: find_best returns a class the leaf label policy allows, and every
\* class the policy allows is one find_best can return: any class when the
\* three counts are equal, either of the two greatest when they tie, the
\* greatest alone otherwise.
C5_LeafPolicy ==
  fb.called =>
    /\ fb.r \in Policy(Counts(fb.a, fb.b, fb.c))
    /\ find_best(fb.a, fb.b, fb.c) = Policy(Counts(fb.a, fb.b, fb.c))

C5_Witness ==
  /\ fb.called
  /\ fb.c = fb.a
  /\ fb.a > fb.b
  /\ fb.r = 2

\* the premise of the 9-sample scenario
E2EPremise ==
  /\ Len(tflowers) = 9
  /\ \A k \in Class : Cardinality({i \in DOMAIN tflowers : tflowers[i].class = k}) = 3
  /\ \E t \in 1 .. E2EVals + 1 :
       \A i \in DOMAIN tflowers : (tflowers[i].class = 0) <=> (tflowers[i].sl < t)
  /\ \E t \in 1 .. E2EVals + 1 :
       \A i \in DOMAIN tflowers :
         tflowers[i].class # 0 => ((tflowers[i].class = 1) <=> (tflowers[i].pl < t))

\* C6: in the 9-sample scenario with depth argument 2 the root splits on SL,
\* one child is a leaf labelled 0, the other splits on PL into leaves labelled
\* 1 and 2, and all 9 training flowers are classified correctly.
C6_EndToEnd ==
  (pc = "done" /\ argDepth = 2 /\ E2EPremise) =>
    /\ nodes[name].feature_ = "SL"
    /\ \E c \in {Left(name), Right(name)}, d \in {Left(name), Right(name)} :
         /\ c # d
         /\ IsLeaf(nodes[c]) /\ nodes[c].feature_ = to_string(0)
         /\ IsInternal(nodes[d]) /\ nodes[d].feature_ = "PL"
         /\ IsLeaf(nodes[Left(d)]) /\ IsLeaf(nodes[Right(d)])
         /\ {nodes[Left(d)].feature_, nodes[Right(d)].feature_} = {to_string(1), to_string(2)}
    /\ correctt = 9

\* the walk r of validate_flower went through children that exist to a leaf
EndsAtLeaf(r) == r.ok /\ IsLeaf(nodes[r.leaf])

\* C7: once the tree is built every node is a leaf (no child, a class code
\* as label) or an internal node (one of the four features, two children),
\* never both, and validate_flower goes through children that exist and ends
\* at a leaf: on the training flowers as main walks them, and on any flower
\* from the root of the finished tree.
C7_LeafXorInternal ==
  /\ Finished =>
       /\ \A p \in Positions :
            /\ nodes[p].built
            /\ IsLeaf(nodes[p]) # IsInternal(nodes[p])
            /\ IsInternal(nodes[p]) => (Left(p) \in Positions /\ Right(p) \in Positions)
            /\ IsLeaf(nodes[p]) => (Left(p) \notin Positions /\ Right(p) \notin Positions)
       /\ ~derefNull
  /\ pc = "done" => \A fl \in Flowers : EndsAtLeaf(validate_flower(nodes, name, fl))

C7_Witness ==
  /\ pc = "done"
  /\ IsInternal(nodes[name])
  /\ \E p \in Positions : nodes[p].searched /\ IsLeaf(nodes[p])

\* the flowers of a partition have the same four feature values
Identical(fl) ==
  \A i, j \in DOMAIN fl : \A f \in Features : feature(fl[i], f) = feature(fl[j], f)

\* C8: a node the depth test does not stop, whose flowers have the same four
\* feature values and two or more classes, gets gain 0 from all four
\* features and becomes a leaf without children, labelled as the leaf label
\* policy allows for its class counts.
C8_IdenticalIsLeaf ==
  \A p \in Positions :
    (/\ nodes[p].built
     /\ ~DepthReached(p)
     /\ Identical(nodes[p].flowers_)
     /\ Cardinality(Classes(nodes[p].flowers_)) >= 2) =>
      /\ nodes[p].searched
      /\ \A f \in Features : nodes[p].mg[f].gain = 0
      /\ ~nodes[p].left_ /\ ~nodes[p].right_
      /\ Left(p) \notin Positions /\ Right(p) \notin Positions
      /\ nodes[p].feature_ \in {to_string(k) : k \in Policy(count_class(nodes[p].flowers_))}

C8_Witness ==
  \E p \in Positions :
    /\ nodes[p].built
    /\ Depth(p) = 1
    /\ ~DepthReached(p)
    /\ Identical(nodes[p].flowers_)
    /\ Cardinality(Classes(nodes[p].flowers_)) = 2
    /\ IsLeaf(nodes[p])

\* the first feature in declared order whose gain is the greatest of the four
FirstGreatest(mg) ==
  Feature[Min({i \in 1 .. 4 : \A j \in 1 .. 4 : mg[Feature[j]].gain <= mg[Feature[i]].gain})]

InBounds(m, n) ==
  /\ m.reads \subseteq 0 .. n - 1
  /\ m.splits \subseteq 0 .. n
  /\ 1 <= m.index /\ m.index < n

C10_IndicesInBounds ==
  \A p \in Positions :
    nodes[p].built =>
      LET n == Len(nodes[p].flowers_)
      IN  /\ nodes[p].scan \subseteq 0 .. n - 1
          /\ nodes[p].searched =>
               /\ n >= 2
               /\ \A f \in Features : InBounds(nodes[p].mg[f], n)
          /\ IsInternal(nodes[p]) => InBounds(nodes[p].sel, n)

C10_Witness ==
  \E p \in Positions :
    /\ nodes[p].built
    /\ IsInternal(nodes[p])
    /\ Len(nodes[p].flowers_) = 3
    /\ nodes[p].sel.index = 2
    /\ 3 \in nodes[p].mg["PW"].splits
====
